---------------------------- MODULE Spec2Model ----------------------------
(***************************************************************************)
(* A model of pdsql/util.py: compare_dfs (the snapshot differ),            *)
(* create_engine (the driver fallback ladder) and save_df (the export      *)
(* dispatcher).                                                            *)
(*                                                                         *)
(* A column name is the sequence of its characters, so that the suffix     *)
(* '_x' the merge adds, the test "'_x' in c" and the slice c[:-2] are the  *)
(* string operations of the source.  A cell is a record [k, v]: k is       *)
(* "val" for a concrete value v, "NaN" or "None" for the two nulls pandas  *)
(* knows, and the category name for a cell of the merge indicator column.  *)
(* Numbers are integers (an integer-valued float64 is its integer; all     *)
(* values are far below 2^53, where int64 -> float64 is exact); a text     *)
(* value is the number of the string, a boolean is 0 or 1.                 *)
(***************************************************************************)
EXTENDS Integers, Sequences, FiniteSets, TLC

VARIABLES
    old_df, new_df, on,      \* the arguments of compare_dfs
    locals,                  \* compare_dfs' working frames (comp1, comp_list, ...)
    dict1,                   \* what compare_dfs returned or raised
    db_type, username, password,             \* the arguments of create_engine
    pymssql_ok, pyodbc_ok, can_connect,      \* its environment: what is installed, what connects
    pc, attempts, connected, printed, engine, eng_out,   \* its position and effects
    df, path_str, index, header,             \* the arguments of save_df
    writes, save_out                         \* the files save_df wrote, and how it ended

cmp_vars  == <<old_df, new_df, on, locals, dict1>>
eng_vars ==
    <<db_type, username, password, pymssql_ok, pyodbc_ok, can_connect,
      pc, attempts, connected, printed, engine, eng_out>>
save_vars == <<df, path_str, index, header, writes, save_out>>
vars == <<cmp_vars, eng_vars, save_vars>>

-----------------------------------------------------------------------------
(* Bounds of the model *)

MaxKey == 2
MaxRows == 2

-----------------------------------------------------------------------------
(* Cells, column names, frames *)

Val(n) == [k |-> "val", v |-> n]
NaN == [k |-> "NaN", v |-> 0]
None == [k |-> "None", v |-> 0]
Cat(s) == [k |-> s, v |-> 0]

IsNull(c) == c.k \in {"NaN", "None"}
NotNull(c) == ~IsNull(c)

ID == <<"i", "d">>
A == <<"a">>
B == <<"b">>
SUFFIX_X == <<"_", "x">>
SUFFIX_EMPTY == <<>>
MERGE == <<"_", "m", "e", "r", "g", "e">>

SeqToSet(s) == {s[i] : i \in 1..Len(s)}

RECURSIVE SelectSeqBy(_, _)
(* The subsequence of s at the positions where the boolean vector mask is TRUE *)
SelectSeqBy(s, mask) ==
    IF s = <<>> THEN <<>>
    ELSE (IF Head(mask) THEN <<Head(s)>> ELSE <<>>) \o SelectSeqBy(Tail(s), Tail(mask))

RECURSIVE Flatten(_)
Flatten(ss) == IF ss = <<>> THEN <<>> ELSE Head(ss) \o Flatten(Tail(ss))

Frame(columns, dtypes, rows) == [columns |-> columns, dtypes |-> dtypes, rows |-> rows]

(* df[cols]: the frame restricted to the listed columns, in the listed order *)
Project(fr, cols) ==
    Frame(cols,
          [c \in SeqToSet(cols) |-> fr.dtypes[c]],
          [i \in 1..Len(fr.rows) |-> [c \in SeqToSet(cols) |-> fr.rows[i][c]]])

(* df[mask] / df.loc[mask]: the rows where mask holds; dtypes are kept *)
Filter(fr, mask) == Frame(fr.columns, fr.dtypes, SelectSeqBy(fr.rows, mask))

(* 'sub' in c, for Python strings *)
Contains(c, sub) ==
    \E i \in 0..(Len(c) - Len(sub)) : SubSeq(c, i + 1, i + Len(sub)) = sub

(* c[:-2] *)
DropLast2(c) == SubSeq(c, 1, Len(c) - 2)


-----------------------------------------------------------------------------
(* pandas.merge(left, right, on=keys, how='outer', indicator=True,          *)
(*              suffixes=('_x', ''))                                        *)

(* The dtype a column takes when the outer join has to put NaN into it *)
UpcastForNaN(dtype) ==
    CASE dtype = "int64" -> "float64"
      [] dtype = "bool" -> "object"
      [] OTHER -> dtype

(* Join keys match on equal values; a null key matches a null key *)
KeyCellEq(a, b) == IF IsNull(a) \/ IsNull(b) THEN IsNull(a) /\ IsNull(b) ELSE a = b

KeyEq(l, r, keys) == \A c \in SeqToSet(keys) : KeyCellEq(l[c], r[c])

Merge(left, right, keys) ==
    LET keyset == SeqToSet(keys)
        lset == SeqToSet(left.columns)
        rset == SeqToSet(right.columns)
        overlap == (lset \cap rset) \ keyset
        LName(c) == IF c \in overlap THEN c \o SUFFIX_X ELSE c
        RName(c) == IF c \in overlap THEN c \o SUFFIX_EMPTY ELSE c
        NotKey(c) == c \notin keyset
        rval == SelectSeq(right.columns, NotKey)
        lout == [i \in 1..Len(left.columns) |->
                    IF left.columns[i] \in keyset THEN left.columns[i]
                    ELSE LName(left.columns[i])]
        rout == [i \in 1..Len(rval) |-> RName(rval[i])]
        columns == lout \o rout \o <<MERGE>>
        nl == Len(left.rows)
        nr == Len(right.rows)
        Matches(i) == {j \in 1..nr : KeyEq(left.rows[i], right.rows[j], keys)}
        Matched(j) == \E i \in 1..nl : KeyEq(left.rows[i], right.rows[j], keys)
        has_left_only == \E i \in 1..nl : Matches(i) = {}
        has_right_only == \E j \in 1..nr : ~Matched(j)
        dtypes == [n \in SeqToSet(columns) |->
                    IF n = MERGE THEN "category"
                    ELSE IF n \in keyset THEN left.dtypes[n]
                    ELSE IF \E c \in lset \ keyset : LName(c) = n
                    THEN LET c == CHOOSE c \in lset \ keyset : LName(c) = n
                         IN IF has_right_only THEN UpcastForNaN(left.dtypes[c])
                            ELSE left.dtypes[c]
                    ELSE LET c == CHOOSE c \in rset \ keyset : RName(c) = n
                         IN IF has_left_only THEN UpcastForNaN(right.dtypes[c])
                            ELSE right.dtypes[c]]
        (* One joined row; hasl / hasr say which side is present *)
        Row(hasl, l, hasr, r) ==
            [n \in SeqToSet(columns) |->
                IF n = MERGE
                THEN Cat(IF hasl /\ hasr THEN "both"
                         ELSE IF hasl THEN "left_only" ELSE "right_only")
                ELSE IF n \in keyset THEN (IF hasl THEN l[n] ELSE r[n])
                ELSE IF \E c \in lset \ keyset : LName(c) = n
                THEN (IF hasl THEN l[CHOOSE c \in lset \ keyset : LName(c) = n] ELSE NaN)
                ELSE (IF hasr THEN r[CHOOSE c \in rset \ keyset : RName(c) = n] ELSE NaN)]
        RowsOfLeft(i) ==
            IF Matches(i) = {} THEN <<Row(TRUE, left.rows[i], FALSE, left.rows[i])>>
            ELSE LET js == SelectSeq([j \in 1..nr |-> j], LAMBDA j : j \in Matches(i))
                 IN [x \in 1..Len(js) |-> Row(TRUE, left.rows[i], TRUE, right.rows[js[x]])]
        right_only == SelectSeq([j \in 1..nr |-> j], LAMBDA j : ~Matched(j))
        rows == Flatten([i \in 1..nl |-> RowsOfLeft(i)])
                \o [x \in 1..Len(right_only) |->
                        Row(FALSE, right.rows[right_only[x]], TRUE, right.rows[right_only[x]])]
    IN Frame(columns, dtypes, rows)

-----------------------------------------------------------------------------
(* compare_dfs *)

(* np.in1d(xs, ys): for each element of xs, whether it is in ys *)
In1d(xs, ys) == [i \in 1..Len(xs) |-> xs[i] \in SeqToSet(ys)]

(* ndarray.any() *)
AnyTrue(bs) == \E i \in DOMAIN bs : bs[i]

(* The condition of line 33: ~ of the numpy bool that .any() returns is its negation *)
SchemaCheckRaises(old, new) == ~AnyTrue(In1d(old.columns, new.columns))

(* comp1._merge == cat *)
MergeIs(comp1, cat) == [i \in 1..Len(comp1.rows) |-> comp1.rows[i][MERGE] = Cat(cat)]

(* df.drop('_merge', axis=1) *)
DropMerge(fr) ==
    Project(fr, SelectSeq(fr.columns, LAMBDA c : c # MERGE))

(* comp2[comp2.isnull()] = np.nan: every null cell becomes NaN; no dtype changes *)
FillNaN(fr) ==
    Frame(fr.columns, fr.dtypes,
          [i \in 1..Len(fr.rows) |->
              [c \in SeqToSet(fr.columns) |->
                  IF IsNull(fr.rows[i][c]) THEN NaN ELSE fr.rows[i][c]]])

(* {c: c[:-2] for c in comp2 if '_x' in c} *)
OldColsMap(comp2) ==
    LET ks == {c \in SeqToSet(comp2.columns) : Contains(c, SUFFIX_X)}
    IN [c \in ks |-> DropLast2(c)]

(* df.rename(columns=map) *)
Rename(fr, map) ==
    LET New(c) == IF c \in DOMAIN map THEN map[c] ELSE c
        columns == [i \in 1..Len(fr.columns) |-> New(fr.columns[i])]
        Src(n) == CHOOSE c \in SeqToSet(fr.columns) : New(c) = n
    IN Frame(columns,
             [n \in SeqToSet(columns) |-> fr.dtypes[Src(n)]],
             [i \in 1..Len(fr.rows) |-> [n \in SeqToSet(columns) |-> fr.rows[i][Src(n)]]])

(* numpy.isclose defaults: rtol = 1e-05 (1 / RTolInv), atol = 1e-08.  For integer-valued *)
(* a and b, |a - b| <= atol + rtol * |b| holds exactly when |a - b| <= |b| \div RTolInv  *)
(* (atol is below any difference of integers and only absorbs the rounding of rtol*|b|)  *)
RTolInv == 100000

Abs(x) == IF x < 0 THEN -x ELSE x

IsClose(a, b) ==
    /\ NotNull(a)
    /\ NotNull(b)
    /\ Abs(a.v - b.v) <= Abs(b.v) \div RTolInv

(* old_set[c] != new_set[c], elementwise on non-float columns: NaN != NaN is True *)
NotEqual(a, b) == IF IsNull(a) \/ IsNull(b) THEN TRUE ELSE a.v # b.v

(* Lines 55-58: the comparison chosen by the dtype of the old column after the merge *)
C1Cell(dtype, a, b) ==
    IF dtype = "float64" THEN ~IsClose(a, b) ELSE NotEqual(a, b)

(* NotNan1 with & written for |: a null facing a value no longer counts *)
NotNan1Both(a, b) == NotNull(a) /\ NotNull(b)

(* Line 59: old_set[c].notnull() | new_set[c].notnull() *)
NotNan1(a, b) == NotNull(a) \/ NotNull(b)

(* Lines 54-61 for one column: c2 = c1 & notnan1 *)
C2Column(old_set, new_set, c) ==
    [i \in 1..Len(old_set.rows) |->
        /\ C1Cell(old_set.dtypes[c], old_set.rows[i][c], new_set.rows[i][c])
        /\ NotNan1(old_set.rows[i][c], new_set.rows[i][c])]

NoFrame == Frame(<<>>, <<>>, <<>>)

Raise(exc) ==
    [raised |-> exc, diff |-> NoFrame, new |-> NoFrame, remove |-> NoFrame,
     comp1 |-> NoFrame, comp2 |-> NoFrame, old_set |-> NoFrame, new_set |-> NoFrame,
     val_cols |-> <<>>, comp_list |-> <<>>]

HasCols(fr, cols) == SeqToSet(cols) \subseteq SeqToSet(fr.columns)

(* The element of a one-element set.  Only({F(x) : x \in {e}}) is F(e) with e *)
(* evaluated once: the value of an assignment x = e that later statements read *)
Only(S) == CHOOSE y \in S : TRUE

(* Lines 61-65: comp_list is complete; comp_index, diff_set and the result dict *)
Result(val_cols, comp1, comp2, old_set, new_set, rem1, add1, comp_list) ==
    LET comp_index == [i \in 1..Len(new_set.rows) |->
                          \E x \in 1..Len(comp_list) : comp_list[x][i]]
        diff_set == Filter(new_set, comp_index)
    IN [raised |-> "none", diff |-> diff_set, new |-> add1, remove |-> rem1,
        comp1 |-> comp1, comp2 |-> comp2, old_set |-> old_set,
        new_set |-> new_set, val_cols |-> val_cols, comp_list |-> comp_list]

(* Lines 53-65: the comparison loop (old_set[c] raises KeyError for a column   *)
(* old_set lacks), the concat (which raises ValueError on an empty list: no    *)
(* value column) and the result                                                *)
Classify(val_cols, comp1, comp2, old_set, new_set, rem1, add1) ==
    IF ~HasCols(old_set, val_cols) THEN Raise("KeyError")
    ELSE IF val_cols = <<>> THEN Raise("ValueError")
    ELSE Only({Result(val_cols, comp1, comp2, old_set, new_set, rem1, add1, comp_list) :
                 comp_list \in {[x \in 1..Len(val_cols) |->
                                    C2Column(old_set, new_set, val_cols[x])]}})

(* Lines 46-51: old_set (the key columns and the suffixed columns, renamed back) *)
(* and new_set (the columns of old_df, read from the merge)                      *)
OldNewSets(val_cols, all_cols, keys, comp1, comp2, rem1, add1) ==
    LET old_cols_map == OldColsMap(comp2)
        old_cols == keys \o SelectSeq(comp2.columns, LAMBDA c : c \in DOMAIN old_cols_map)
    IN Only({Classify(val_cols, comp1, comp2, old_set, new_set, rem1, add1) :
                old_set \in {Rename(Project(comp2, old_cols), old_cols_map)},
                new_set \in {Project(comp2, all_cols)}})

(* Lines 41-44: the three parts of the merge *)
Split(val_cols, all_cols, keys, comp1) ==
    Only({OldNewSets(val_cols, all_cols, keys, comp1, comp2, rem1, add1) :
            rem1 \in {Project(Filter(comp1, MergeIs(comp1, "left_only")), keys)},
            add1 \in {Project(Filter(comp1, MergeIs(comp1, "right_only")), all_cols)},
            comp2 \in {FillNaN(DropMerge(Filter(comp1, MergeIs(comp1, "both"))))}})

CompareDfs(old, new, keys) ==
    IF SchemaCheckRaises(old, new) THEN Raise("ValueError")
    ELSE IF ~(HasCols(old, keys) /\ HasCols(new, keys)) THEN Raise("KeyError")
    ELSE Only({Split(SelectSeq(old.columns, LAMBDA c : c \notin SeqToSet(keys)),
                     old.columns, keys, comp1) :
                 comp1 \in {Merge(old, new, keys)}})

-----------------------------------------------------------------------------
(* The inputs compare_dfs is applied to *)

NumVals == {Val(1), Val(100000), Val(100001)}

(* The cells a value column of a dtype can hold: int64 and bool hold no null, a *)
(* float64 null is NaN, a text (object) null is None                          *)
CellsOf(dtype) ==
    CASE dtype = "int64" -> NumVals
      [] dtype = "float64" -> NumVals \cup {NaN}
      [] dtype = "object" -> {None, Val(1), Val(2)}
      [] dtype = "bool" -> {Val(0), Val(1)}

KeyCells == {Val(n) : n \in 1..MaxKey}

AllInt == [c \in {ID, A, B} |-> "int64"]

(* Inputs with one schema on both sides.  cells gives the cells of each column *)
Same(cols, keys, cells, dtypes) ==
    [old_cols |-> cols, new_cols |-> cols, keys |-> keys, cells |-> cells, dtypes |-> dtypes]

SameSchemas ==
    {Same(<<ID>>, <<ID>>, [c \in {ID} |-> KeyCells], AllInt)}
    \cup {Same(<<ID, A>>, <<ID>>, (ID :> KeyCells) @@ (A :> CellsOf(t)),
               (ID :> "int64") @@ (A :> t)) : t \in {"int64", "float64", "object", "bool"}}
    \cup {Same(<<ID, A>>, <<ID, A>>, (ID :> KeyCells) @@ (A :> CellsOf("bool")),
               (ID :> "int64") @@ (A :> "bool"))}
    \cup {Same(<<ID, A, B>>, <<ID, A>>,
               (ID :> {Val(1), Val(2)}) @@ (A :> CellsOf("bool")) @@ (B :> {Val(1), Val(100000)}),
               (ID :> "int64") @@ (A :> "bool") @@ (B :> "int64"))}

(* Inputs whose column sets differ *)
MixedSchemas ==
    {[old_cols |-> oc, new_cols |-> nc, keys |-> <<ID>>,
      cells |-> (ID :> KeyCells) @@ (A :> {Val(1)}) @@ (B :> {Val(1)}),
      dtypes |-> AllInt] :
        <<oc, nc>> \in {<<(<<ID, A>>), (<<ID>>)>>, <<(<<ID, A>>), (<<ID, B>>)>>,
                       <<(<<ID, A>>), (<<ID, A, B>>)>>, <<(<<ID, A>>), (<<B>>)>>,
                       <<(<<ID, A, B>>), (<<ID, A>>)>>}}

Schemas == SameSchemas \cup MixedSchemas

RECURSIVE RowsOver(_, _)
(* Every row over the columns cols *)
RowsOver(cols, cells) ==
    IF cols = <<>> THEN {<<>>}
    ELSE {(Head(cols) :> v) @@ r : v \in cells[Head(cols)], r \in RowsOver(Tail(cols), cells)}

KeyOf(row, keys) == [i \in 1..Len(keys) |-> row[keys[i]]]

KeysOf(rows, keys) == {KeyOf(rows[i], keys) : i \in 1..Len(rows)}

RECURSIVE Relations(_, _, _)
(* Every sequence of at most n of the rows with no key tuple twice (a Relation, *)
(* spec section 3), the key being the columns of keys the rows have            *)
Relations(rows, keys, n) ==
    IF n = 0 THEN {<<>>}
    ELSE LET shorter == Relations(rows, keys, n - 1)
         IN shorter \cup UNION {{Append(s, r) : r \in {q \in rows : KeyOf(q, keys) \notin KeysOf(s, keys)}} :
                                    s \in {t \in shorter : Len(t) = n - 1}}

RECURSIVE KeyLess(_, _)
(* Key tuples in lexicographic order *)
KeyLess(k1, k2) ==
    /\ k1 # <<>>
    /\ \/ Head(k1).v < Head(k2).v
       \/ Head(k1) = Head(k2) /\ KeyLess(Tail(k1), Tail(k2))

Ascending(rows, keys) ==
    \A i \in 1..(Len(rows) - 1) : KeyLess(KeyOf(rows[i], keys), KeyOf(rows[i + 1], keys))

(* The frames over cols of a schema: rows in any order, or (ascending) only those *)
(* whose rows are in ascending key order                                         *)
FramesOf(cols, sc, ascending) ==
    LET keys == SelectSeq(sc.keys, LAMBDA c : c \in SeqToSet(cols))
        rels == Relations(RowsOver(cols, sc.cells), keys, MaxRows)
    IN {Frame(cols, [c \in SeqToSet(cols) |-> sc.dtypes[c]], rows) :
            rows \in {r \in rels : ascending => Ascending(r, keys)}}

NotCalled == [raised |-> "not called", diff |-> NoFrame, new |-> NoFrame, remove |-> NoFrame]

NoLocals ==
    [comp1 |-> NoFrame, comp2 |-> NoFrame, old_set |-> NoFrame, new_set |-> NoFrame,
     val_cols |-> <<>>, comp_list |-> <<>>]

(* One call of compare_dfs(old_df, new_df, on) *)
CallCompareDfs ==
    /\ dict1.raised = "not called"
    /\ \E r \in {CompareDfs(old_df, new_df, on)} :
          /\ dict1' = [raised |-> r.raised, diff |-> r.diff, new |-> r.new, remove |-> r.remove]
          /\ locals' = [comp1 |-> r.comp1, comp2 |-> r.comp2, old_set |-> r.old_set,
                        new_set |-> r.new_set, val_cols |-> r.val_cols,
                        comp_list |-> r.comp_list]
    /\ UNCHANGED <<old_df, new_df, on, eng_vars, save_vars>>

-----------------------------------------------------------------------------
(* create_engine *)

NoneValue == <<>>

(* Lines 95-101: the credentials part of the URL *)
Up(user, pass) ==
    IF user # NoneValue
    THEN (IF pass # NoneValue THEN user \o <<":">> \o pass ELSE user) \o <<"@">>
    ELSE <<>>

SERVER == <<"server">>
DATABASE == <<"database">>

(* Drivers with the 13 rung nested before the 13.1 rung *)
DriversMisordered ==
    <<"pymssql", "ODBC Driver 17", "ODBC Driver 13", "ODBC Driver 13.1", "ODBC Driver 11",
      "SQL Server Native Client 11.0">>

(* The mssql ladder, in the order of lines 104-136 *)
Drivers ==
    <<"pymssql", "ODBC Driver 17", "ODBC Driver 13.1", "ODBC Driver 13", "ODBC Driver 11",
      "SQL Server Native Client 11.0">>

DriverQuery(d) ==
    CASE d = "ODBC Driver 17" -> "?driver=ODBC+Driver+17+for+SQL+Server"
      [] d = "ODBC Driver 13.1" -> "?driver=ODBC+Driver+13.1+for+SQL+Server"
      [] d = "ODBC Driver 13" -> "?driver=ODBC+Driver+13+for+SQL+Server"
      [] d = "ODBC Driver 11" -> "?driver=ODBC+Driver+11+for+SQL+Server"
      [] d = "SQL Server Native Client 11.0" -> "?driver=SQL+Server+Native+Client+11.0"

(* sqlalchemy.create_engine(eng_str): a handle that has opened no connection *)
Engine(driver, eng_str) == [driver |-> driver, eng_str |-> eng_str]

NoEngine == Engine("unbound", <<>>)

PymssqlStr(u) == <<"mssql+pymssql://">> \o u \o SERVER \o <<"/">> \o DATABASE

PyodbcStr(u, d) == <<"mssql+pyodbc://">> \o u \o SERVER \o <<"/">> \o DATABASE \o <<DriverQuery(d)>>

DbTypes == {"mssql", "postgresql", "oracle", "mysql", "sqlite", "db2"}

OdbcDrivers == {Drivers[i] : i \in 2..Len(Drivers)}

EngEnv == <<db_type, username, password, pymssql_ok, pyodbc_ok, can_connect>>

(* Lines 102, 139-149: the branch on db_type.  Every branch but mssql binds engine *)
(* at once; a db_type that matches no branch leaves it unbound                    *)
Dispatch ==
    /\ pc = "start"
    /\ LET u == Up(username, password)
       IN CASE db_type = "mssql" ->
                 /\ pc' = "pymssql"
                 /\ engine' = engine
            [] db_type = "postgresql" ->
                 /\ pc' = "return"
                 /\ engine' = Engine("postgresql", <<"postgresql://">> \o u \o SERVER \o <<"/">> \o DATABASE)
            [] db_type = "oracle" ->
                 /\ pc' = "return"
                 /\ engine' = Engine("oracle", <<"oracle://">> \o u \o SERVER \o <<"/">> \o DATABASE)
            [] db_type = "mysql" ->
                 /\ pc' = "return"
                 /\ engine' = Engine("mysql", <<"mysql+mysqldb://">> \o u \o SERVER \o <<"/">> \o DATABASE)
            [] db_type = "sqlite" ->
                 /\ pc' = "return"
                 /\ engine' = Engine("sqlite", <<"sqlite:///:memory:">>)
            [] OTHER ->
                 /\ pc' = "return"
                 /\ engine' = engine
    /\ UNCHANGED <<EngEnv, attempts, connected, printed, eng_out, cmp_vars, save_vars>>

(* Lines 103-107: import pymssql and create its engine; no connection is opened *)
TryPymssql ==
    /\ pc = "pymssql"
    /\ attempts' = Append(attempts, Drivers[1])
    /\ IF pymssql_ok
       THEN /\ engine' = Engine(Drivers[1], PymssqlStr(Up(username, password)))
            /\ pc' = "return"
       ELSE /\ engine' = engine
            /\ pc' = Drivers[2]
    /\ UNCHANGED <<EngEnv, connected, printed, eng_out, cmp_vars, save_vars>>

(* Lines 108-138, one rung: create the pyodbc engine for driver i (which raises, *)
(* uncaught, when pyodbc cannot be imported), then engine.connect()             *)
TryOdbc(i) ==
    /\ pc = Drivers[i]
    /\ attempts' = Append(attempts, Drivers[i])
    /\ IF ~pyodbc_ok
       THEN /\ pc' = "done"
            /\ eng_out' = "ImportError"
            /\ UNCHANGED <<engine, connected, printed>>
       ELSE /\ engine' = Engine(Drivers[i], PyodbcStr(Up(username, password), Drivers[i]))
            /\ eng_out' = eng_out
            /\ IF Drivers[i] \in can_connect
               THEN /\ connected' = connected \cup {Drivers[i]}
                    /\ pc' = "return"
                    /\ printed' = printed
               ELSE /\ connected' = connected
                    /\ IF i < Len(Drivers)
                       THEN /\ pc' = Drivers[i + 1]
                            /\ printed' = printed
                       ELSE /\ pc' = "return"
                            /\ printed' = Append(printed, "Install a proper ODBC mssql driver")
    /\ UNCHANGED <<EngEnv, cmp_vars, save_vars>>

(* Line 151: return engine *)
Return ==
    /\ pc = "return"
    /\ pc' = "done"
    /\ eng_out' = IF engine = NoEngine THEN "UnboundLocalError" ELSE "returned"
    /\ UNCHANGED <<EngEnv, attempts, connected, printed, engine, cmp_vars, save_vars>>

-----------------------------------------------------------------------------
(* save_df *)

(* The attributes of the os module save_df could read (names and string values) *)
OsModule ==
    ("sep" :> <<"/">>) @@ ("extsep" :> <<".">>) @@ ("curdir" :> <<".">>) @@ ("name" :> <<"posix">>)

(* os.<name>: the value, or AttributeError *)
OsGetAttr(name) ==
    IF name \in DOMAIN OsModule THEN [raised |-> "none", value |-> OsModule[name]]
    ELSE [raised |-> "AttributeError", value |-> <<>>]

LastIndexOf(p, ch) ==
    LET is == {i \in 1..Len(p) : p[i] = ch}
    IN IF is = {} THEN 0 ELSE CHOOSE i \in is : \A j \in is : j <= i

(* os.path.splitext: the extension starts at the last dot of the last path component, *)
(* unless only dots precede it there                                                 *)
SplitExt(p) ==
    LET sep == LastIndexOf(p, "/")
        dot == LastIndexOf(p, ".")
    IN IF dot > sep /\ (\E i \in (sep + 1)..(dot - 1) : p[i] # ".")
       THEN <<SubSeq(p, 1, dot - 1), SubSeq(p, dot, Len(p))>>
       ELSE <<p, <<>>>>

H5 == <<".", "h", "5">>
CSV == <<".", "c", "s", "v">>

(* The body of save_df, lines 163-168 *)
SaveDfBody(frame, path, idx, hdr) ==
    LET arg == OsGetAttr("path_str")
    IN IF arg.raised # "none" THEN [raised |-> arg.raised, writes |-> <<>>]
       ELSE LET path1 == SplitExt(arg.value)
                hdf == IF Contains(H5, path1[2])
                       THEN <<[format |-> "hdf", path |-> path, key |-> "df", mode |-> "w",
                               index |-> TRUE, header |-> TRUE, df |-> frame]>>
                       ELSE <<>>
                csv == IF Contains(CSV, path1[2])
                       THEN <<[format |-> "csv", path |-> path, key |-> "", mode |-> "w",
                               index |-> idx, header |-> hdr, df |-> frame]>>
                       ELSE <<>>
            IN [raised |-> "none", writes |-> hdf \o csv]

Paths ==
    {<<"o", ".", "c", "s", "v">>, <<"o", ".", "h", "5">>, <<"o", ".", "t", "x", "t">>,
     <<"o">>, <<"d", ".", "d", "/", "o">>, <<".", "c", "s", "v">>, <<"o", ".", "h">>}

(* One call of save_df(df, path_str, index, header) *)
CallSaveDf ==
    /\ save_out = "not called"
    /\ LET r == SaveDfBody(df, path_str, index, header)
       IN /\ writes' = writes \o r.writes
          /\ save_out' = IF r.raised = "none" THEN "returned" ELSE r.raised
    /\ UNCHANGED <<df, path_str, index, header, cmp_vars, eng_vars>>

-----------------------------------------------------------------------------
(* Specifications: one per function, the other two functions idle *)

(* compare_dfs, not yet called, on every pair of frames of the input families *)
InitCompare ==
    /\ \E sc \in Schemas :
        /\ old_df \in FramesOf(sc.old_cols, sc, FALSE)
        /\ new_df \in FramesOf(sc.new_cols, sc, TRUE)
        /\ on = sc.keys
    /\ locals = NoLocals
    /\ dict1 = NotCalled
    /\ db_type = "sqlite"
    /\ username = NoneValue
    /\ password = NoneValue
    /\ pymssql_ok = FALSE
    /\ pyodbc_ok = FALSE
    /\ can_connect = {}
    /\ pc = "idle"
    /\ attempts = <<>>
    /\ connected = {}
    /\ printed = <<>>
    /\ engine = NoEngine
    /\ eng_out = "idle"
    /\ df = NoFrame
    /\ path_str = <<>>
    /\ index = TRUE
    /\ header = TRUE
    /\ writes = <<>>
    /\ save_out = "idle"

CmpNext == CallCompareDfs

SpecCompare == InitCompare /\ [][CmpNext]_vars

(* create_engine at its first line, in every environment *)
InitEngine ==
    /\ db_type \in DbTypes
    /\ username \in {NoneValue, <<"user">>}
    /\ password \in {NoneValue, <<"pw">>}
    /\ pymssql_ok \in BOOLEAN
    /\ pyodbc_ok \in BOOLEAN
    /\ can_connect \in SUBSET OdbcDrivers
    /\ pc = "start"
    /\ attempts = <<>>
    /\ connected = {}
    /\ printed = <<>>
    /\ engine = NoEngine
    /\ eng_out = "running"
    /\ old_df = NoFrame
    /\ new_df = NoFrame
    /\ on = <<>>
    /\ locals = NoLocals
    /\ dict1 = NotCalled
    /\ df = NoFrame
    /\ path_str = <<>>
    /\ index = TRUE
    /\ header = TRUE
    /\ writes = <<>>
    /\ save_out = "idle"

EngNext ==
    \/ Dispatch
    \/ TryPymssql
    \/ \E i \in 2..Len(Drivers) : TryOdbc(i)
    \/ Return

SpecEngine == InitEngine /\ [][EngNext]_vars

(* save_df, not yet called *)
InitSave ==
    /\ df \in FramesOf(<<ID>>, Same(<<ID>>, <<ID>>, [c \in {ID} |-> KeyCells], AllInt), FALSE)
    /\ path_str \in Paths
    /\ index \in BOOLEAN
    /\ header \in BOOLEAN
    /\ writes = <<>>
    /\ save_out = "not called"
    /\ old_df = NoFrame
    /\ new_df = NoFrame
    /\ on = <<>>
    /\ locals = NoLocals
    /\ dict1 = NotCalled
    /\ db_type = "sqlite"
    /\ username = NoneValue
    /\ password = NoneValue
    /\ pymssql_ok = FALSE
    /\ pyodbc_ok = FALSE
    /\ can_connect = {}
    /\ pc = "idle"
    /\ attempts = <<>>
    /\ connected = {}
    /\ printed = <<>>
    /\ engine = NoEngine
    /\ eng_out = "idle"

SaveNext == CallSaveDf

SpecSave == InitSave /\ [][SaveNext]_vars

-----------------------------------------------------------------------------
(* Vocabulary of the properties of compare_dfs *)

Called == dict1.raised # "not called"

Returned == dict1.raised = "none"

ColumnSet(fr) == SeqToSet(fr.columns)

SameColumns == ColumnSet(old_df) = ColumnSet(new_df)

OldKeys == KeysOf(old_df.rows, on)

NewKeys == KeysOf(new_df.rows, on)

ValCols == ColumnSet(old_df) \ SeqToSet(on)

(* How many rows of the frame carry key tuple k *)
Count(fr, k) == Cardinality({i \in 1..Len(fr.rows) : KeyOf(fr.rows[i], on) = k})

(* The row of the frame with key tuple k *)
RowOf(fr, k) == fr.rows[CHOOSE i \in 1..Len(fr.rows) : KeyOf(fr.rows[i], on) = k]

InDiff(k) == Returned /\ Count(dict1.diff, k) > 0

InNew(k) == Returned /\ Count(dict1.new, k) > 0

InRemove(k) == Returned /\ Count(dict1.remove, k) > 0

(* Two cells hold the same value: both null, or the same concrete value *)
SameCell(a, b) == IF IsNull(a) \/ IsNull(b) THEN IsNull(a) /\ IsNull(b) ELSE a.v = b.v

SameRow(r1, r2, cols) == \A c \in cols : SameCell(r1[c], r2[c])

(* The equality rule of a column as the specification states it, by the type the *)
(* column has in the inputs: tolerance for floating point, exact otherwise, two  *)
(* nulls equal, a null and a value different                                     *)
Differs(dtype, a, b) ==
    IF IsNull(a) \/ IsNull(b) THEN ~(IsNull(a) /\ IsNull(b))
    ELSE IF dtype = "float64" THEN Abs(a.v - b.v) > Abs(b.v) \div 100000
    ELSE a.v # b.v

-----------------------------------------------------------------------------
(* C1: for inputs with the same columns and unique keys, compare_dfs puts every *)
(* key in exactly one class: a key only in old is in 'remove' (once) and        *)
(* nowhere else, a key only in new is in 'new' (once) and nowhere else, a key   *)
(* in both is in 'diff' or in no output at all.                                 *)
C1_KeyPartition ==
    (Called /\ SameColumns) =>
        /\ Returned
        /\ \A k \in OldKeys \ NewKeys :
              Count(dict1.remove, k) = 1 /\ ~InNew(k) /\ ~InDiff(k)
        /\ \A k \in NewKeys \ OldKeys :
              Count(dict1.new, k) = 1 /\ ~InRemove(k) /\ ~InDiff(k)
        /\ \A k \in OldKeys \cap NewKeys :
              ~InRemove(k) /\ ~InNew(k) /\ Count(dict1.diff, k) <= 1

(* C2: compare_dfs(R, R, key) returns normally with 'diff', 'new' and 'remove' *)
(* all empty, for every R, an R with no value column included.                 *)
C2_SelfDiffEmpty ==
    (Called /\ old_df = new_df) =>
        /\ Returned
        /\ dict1.diff.rows = <<>>
        /\ dict1.new.rows = <<>>
        /\ dict1.remove.rows = <<>>

(* C3: for inputs with the same columns and disjoint key sets, 'new' is the   *)
(* whole new relation (every row, all columns), 'remove' is old projected on *)
(* the key columns, and 'diff' is empty.                                     *)
C3_DisjointKeys ==
    (Called /\ SameColumns /\ OldKeys \cap NewKeys = {}) =>
        /\ Returned
        /\ ColumnSet(dict1.new) = ColumnSet(new_df)
        /\ Len(dict1.new.rows) = Len(new_df.rows)
        /\ \A k \in NewKeys :
              InNew(k) /\ SameRow(RowOf(dict1.new, k), RowOf(new_df, k), ColumnSet(new_df))
        /\ dict1.remove.columns = on
        /\ Len(dict1.remove.rows) = Len(old_df.rows)
        /\ \A k \in OldKeys : InRemove(k)
        /\ dict1.diff.rows = <<>>

(* The position in comp_list of value column c, and in comp2 of key tuple k *)
ColIndex(c) == CHOOSE x \in 1..Len(locals.val_cols) : locals.val_cols[x] = c

RowIndex(k) ==
    CHOOSE i \in 1..Len(locals.new_set.rows) : KeyOf(locals.new_set.rows[i], on) = k

(* C4: for a key in both inputs and a non-key column, a value null on both sides *)
(* never makes the column count as changed, and a value null on exactly one side *)
(* always puts the row in 'diff'.                                                *)
C4_NullHandling ==
    (Called /\ SameColumns) =>
        \A k \in OldKeys \cap NewKeys : \A c \in ValCols :
            LET o == RowOf(old_df, k)[c]
                n == RowOf(new_df, k)[c]
            IN /\ (IsNull(o) /\ IsNull(n)) =>
                     Returned /\ ~locals.comp_list[ColIndex(c)][RowIndex(k)]
               /\ (IsNull(o) # IsNull(n)) => InDiff(k)

(* C4, its case: one call compared a key whose value is null on both sides and  *)
(* is not in 'diff', and a key whose value is null on one side only             *)
C4_Witness ==
    /\ Returned
    /\ SameColumns
    /\ \E k \in OldKeys \cap NewKeys : \E c \in ValCols :
          IsNull(RowOf(old_df, k)[c]) /\ IsNull(RowOf(new_df, k)[c]) /\ ~InDiff(k)
    /\ \E k \in OldKeys \cap NewKeys : \E c \in ValCols :
          IsNull(RowOf(old_df, k)[c]) /\ NotNull(RowOf(new_df, k)[c]) /\ InDiff(k)

(* C5: a key in both inputs is in 'diff' exactly when some non-key column differs *)
(* under the column's equality rule; a 'diff' row has all the columns of the      *)
(* inputs (none suffixed) and the new relation's values.                          *)
C5_DiffIffChanged ==
    (Called /\ SameColumns) =>
        /\ \A k \in OldKeys \cap NewKeys :
              InDiff(k) <=>
                 \E c \in ValCols :
                    Differs(old_df.dtypes[c], RowOf(old_df, k)[c], RowOf(new_df, k)[c])
        /\ Returned =>
              /\ ColumnSet(dict1.diff) = ColumnSet(new_df)
              /\ \A i \in 1..Len(dict1.diff.rows) :
                    LET k == KeyOf(dict1.diff.rows[i], on)
                    IN k \in NewKeys
                       /\ SameRow(dict1.diff.rows[i], RowOf(new_df, k), ColumnSet(new_df))

(* C6: when the column sets of old and new differ, compare_dfs fails with the *)
(* schema-mismatch error (the ValueError of line 34) and returns no result.   *)
C6_SchemaMismatchRaises ==
    (Called /\ ~SameColumns) => dict1.raised = "ValueError"

(* C9: for a key in both inputs, two distinct non-null values in a non-key column *)
(* that is not floating point in the inputs put the row in 'diff', whatever their *)
(* magnitude and whatever other rows the inputs hold.                             *)
C9_ExactForNonFloat ==
    (Called /\ SameColumns) =>
        \A k \in OldKeys \cap NewKeys : \A c \in ValCols :
            LET o == RowOf(old_df, k)[c]
                n == RowOf(new_df, k)[c]
            IN (old_df.dtypes[c] # "float64" /\ NotNull(o) /\ NotNull(n) /\ o.v # n.v)
                  => InDiff(k)

-----------------------------------------------------------------------------
(* Vocabulary of the properties of create_engine *)

(* The order of the mssql drivers as the specification states it *)
ClaimedOrder ==
    <<"pymssql", "ODBC Driver 17", "ODBC Driver 13.1", "ODBC Driver 13", "ODBC Driver 11",
      "SQL Server Native Client 11.0">>

(* The attempt on driver d succeeds in this environment: pymssql imports and its *)
(* engine is created; a pyodbc engine is created and connects                    *)
Works(d) == IF d = "pymssql" THEN pymssql_ok ELSE pyodbc_ok /\ d \in can_connect

SomeDriverWorks == \E i \in 1..Len(ClaimedOrder) : Works(ClaimedOrder[i])

FirstWorking ==
    ClaimedOrder[CHOOSE i \in 1..Len(ClaimedOrder) :
                    Works(ClaimedOrder[i]) /\ \A j \in 1..(i - 1) : ~Works(ClaimedOrder[j])]

(* The attempts so far are the first drivers of the order, each once, and every *)
(* attempt but the last has failed                                              *)
OrderedAttempts ==
    /\ Len(attempts) <= Len(ClaimedOrder)
    /\ attempts = SubSeq(ClaimedOrder, 1, Len(attempts))
    /\ \A i \in 1..(Len(attempts) - 1) : ~Works(attempts[i])

(* C7: when every driver of the mssql ladder has failed, create_engine ends with *)
(* an explicit typed failure (listing the drivers attempted) and does not return *)
(* the unopened handle.                                                          *)
C7_ExhaustionFails ==
    (db_type = "mssql" /\ pc = "done" /\ attempts = Drivers /\ ~SomeDriverWorks) =>
        eng_out = "ConnectionFailure"

(* C10 as stated: the drivers are tried in the fixed order, each at most once, a *)
(* driver only after every earlier one failed and none after a success, and the  *)
(* handle returned is that of the first driver whose attempt to open a           *)
(* connection succeeded.                                                         *)
C10_HandleOfOpenedConnection ==
    db_type = "mssql" =>
        /\ OrderedAttempts
        /\ (eng_out = "returned" /\ SomeDriverWorks) =>
              engine.driver = FirstWorking /\ engine.driver \in connected

(* C10 as amended: the same order of attempts; the handle returned is the pymssql *)
(* handle when pymssql imports and its engine is created (no connection is opened *)
(* to validate it), and otherwise that of the first ODBC driver in the order      *)
(* whose attempt to open a connection succeeded.                                  *)
C10_FallbackOrder ==
    db_type = "mssql" =>
        /\ OrderedAttempts
        /\ (eng_out = "returned" /\ SomeDriverWorks) =>
              /\ engine.driver = FirstWorking
              /\ engine.driver = attempts[Len(attempts)]
              /\ IF pymssql_ok THEN engine.driver = "pymssql" /\ connected = {}
                 ELSE connected = {engine.driver}

(* C10, its case: the ladder fell back at least twice and returned the handle of *)
(* the driver that connected                                                     *)
C10_Witness ==
    /\ db_type = "mssql"
    /\ eng_out = "returned"
    /\ Len(attempts) >= 3
    /\ engine.driver = attempts[Len(attempts)]
    /\ engine.driver \in connected

-----------------------------------------------------------------------------
(* Vocabulary of the properties of save_df *)

EndsWith(p, ext) == Len(p) >= Len(ext) /\ SubSeq(p, Len(p) - Len(ext) + 1, Len(p)) = ext

(* C8: save_df performs exactly one serialisation, chosen by the extension: for  *)
(* '.csv' one CSV write of df to path_str with the index and header flags, for   *)
(* '.h5' one binary-table write of df to path_str in overwrite mode.             *)
C8_OneWriteByExtension ==
    save_out # "not called" =>
        /\ EndsWith(path_str, CSV) =>
              /\ save_out = "returned"
              /\ Len(writes) = 1
              /\ writes[1].format = "csv" /\ writes[1].path = path_str /\ writes[1].df = df
              /\ writes[1].index = index /\ writes[1].header = header
        /\ EndsWith(path_str, H5) =>
              /\ save_out = "returned"
              /\ Len(writes) = 1
              /\ writes[1].format = "hdf" /\ writes[1].path = path_str /\ writes[1].df = df
              /\ writes[1].mode = "w"

=============================================================================
